---- MODULE Spec2Model ----
(***************************************************************************)
(* Model of tachfile.py: filter_data_by_device (split a table into one     *)
(* file per device) and get_device_summary (per-device aggregate table).   *)
(* One behaviour is one call of one of the two functions; the variables    *)
(* hold the call's arguments, its locals, the output directory and the     *)
(* returned value.                                                         *)
(***************************************************************************)
EXTENDS Integers, Sequences, FiniteSets, TLC

VARIABLES op, input_file, file_format, specific_devices,
          pc, df, dir_exists, fs, unique_devices, i, stats, result, exc, raised

vars == <<op, input_file, file_format, specific_devices,
          pc, df, dir_exists, fs, unique_devices, i, stats, result, exc, raised>>

----------------------------------------------------------------------------
(* Bounds *)

MaxRows == 3

MaxSumRows == 2

MaxAllow == 2

MaxKeyLen == 3

----------------------------------------------------------------------------
(* Values *)

\* A device key is a string, held as a sequence of one-character strings.
\* NULL is the missing value (NaN) pandas puts where the cell is empty.
\* (a one-element sequence that no character string equals)
NULL == <<"NaN">>

\* specific_devices=None
None == [given |-> FALSE, list |-> <<>>]

Chars == {"a", "/", "\\", "_"}

DeviceKeys == { <<"a">>, <<"a", "/", "b">>, <<"a", "\\", "b">>, <<"a", "_", "b">> }

DeviceValues == DeviceKeys \cup {NULL}

SumDeviceValues == { <<"a">>, <<"a", "_", "b">>, NULL }

Formats == {"csv", "CSV", "Json", "excel", "xml"}

\* The value both functions hand back on failure: {} and pd.DataFrame().
EmptyDict == <<>>

EmptyFrame == [columns |-> <<>>, rows |-> <<>>]

SeqsUpTo(S, n) == UNION { [1..k -> S] : k \in 0..n }

KeysUpTo(n) == UNION { [1..k -> Chars] : k \in 1..n }

----------------------------------------------------------------------------
(* Pure helpers *)

\* str.lower() on the file_format argument
Lower(s) ==
  CASE s = "CSV" -> "csv"
    [] s = "Json" -> "json"
    [] OTHER -> s

\* str(device_id): a string is itself, NaN prints as "nan"
Str(d) == IF d = NULL THEN <<"n", "a", "n">> ELSE d

\* s.replace(old, new) for one-character old and new
Replace(s, old, new) == [j \in 1..Len(s) |-> IF s[j] = old THEN new ELSE s[j]]

\* The sanitiser with the second replace left out.
SafeDeviceNameSlashOnly(d) == Replace(Str(d), "/", "_")

\* str(device_id).replace('/', '_').replace('\\', '_')
SafeDeviceName(d) == Replace(Replace(Str(d), "/", "_"), "\\", "_")

Ext(fmt) ==
  CASE fmt = "csv" -> <<"c", "s", "v">>
    [] fmt = "json" -> <<"j", "s", "o", "n">>
    [] fmt = "excel" -> <<"x", "l", "s", "x">>

\* f"device_{safe_device_name}.<ext>"
FileName(d, fmt) ==
  <<"d", "e", "v", "i", "c", "e", "_">> \o SafeDeviceName(d) \o <<".">> \o Ext(fmt)

\* os.path.join(output_dir, name): the directory is the call's output_dir,
\* so a path is identified by its last component.
OutputFile(d, fmt) == FileName(d, fmt)

\* Elementwise == of pandas: a missing value equals nothing, itself included.
CellEq(a, b) == a # NULL /\ b # NULL /\ a = b

\* Python's `d in specific_devices` for a list of strings
InList(d, lst) == \E j \in 1..Len(lst) : CellEq(d, lst[j])

RECURSIVE SelectSeqBy(_, _, _)
\* rows of t whose device cell compares equal to d: df[df[col] == d]
SelectSeqBy(t, d, n) ==
  IF n > Len(t) THEN <<>>
  ELSE (IF CellEq(t[n].device, d) THEN <<t[n]>> ELSE <<>>) \o SelectSeqBy(t, d, n + 1)

DeviceData(t, d) == SelectSeqBy(t, d, 1)

RECURSIVE UniqueFrom(_, _, _)
\* df[col].unique(): distinct values in first-seen order, NaN kept once
UniqueFrom(t, n, seen) ==
  IF n > Len(t) THEN <<>>
  ELSE IF t[n].device \in seen THEN UniqueFrom(t, n + 1, seen)
  ELSE <<t[n].device>> \o UniqueFrom(t, n + 1, seen \cup {t[n].device})

Unique(t) == UniqueFrom(t, 1, {})

RECURSIVE FilterIn(_, _, _)
\* [d for d in unique_devices if d in specific_devices]
FilterIn(u, lst, n) ==
  IF n > Len(u) THEN <<>>
  ELSE (IF InList(u[n], lst) THEN <<u[n]>> ELSE <<>>) \o FilterIn(u, lst, n + 1)

Range(s) == { s[j] : j \in 1..Len(s) }

----------------------------------------------------------------------------
(* Inputs *)

Restrict(r, C) == [c \in C |-> r[c]]

\* A table: its column names and its rows, each row a mapping from column
\* name to cell.  The id cell is the row's position, so rows are told apart.
Table(C, cells) ==
  [columns |-> C,
   rows |-> [n \in 1..Len(cells) |->
               Restrict([id |-> n,
                         device |-> cells[n].device,
                         created_at |-> cells[n].created_at,
                         online |-> cells[n].online,
                         active_time |-> cells[n].active_time], C)]]

NoTable == [columns |-> {}, rows |-> <<>>]

\* What the path names: a suffix the loader rejects, a file the parser
\* cannot read, or a readable table.
Unloadable == { [kind |-> k, table |-> NoTable] : k \in {"bad_suffix", "unreadable"} }

FilterCells(keys) ==
  [device : keys, created_at : {1}, online : {TRUE}, active_time : {0}]

FilterInputs(keys, maxRows) ==
  Unloadable \cup
  { [kind |-> "ok", table |-> Table(C, cells)] :
      C \in {{"id"}, {"id", "device"}}, cells \in SeqsUpTo(FilterCells(keys), maxRows) }

SummaryColumns == {"id", "device", "created_at", "online", "active_time"}

SummaryCells ==
  [device : SumDeviceValues, created_at : {1, 2}, online : BOOLEAN, active_time : {0, 1}]

SummaryInputs ==
  Unloadable \cup
  { [kind |-> "ok", table |-> Table(C, cells)] :
      C \in SUBSET SummaryColumns, cells \in SeqsUpTo(SummaryCells, MaxSumRows) }

AllowLists ==
  {None} \cup { [given |-> TRUE, list |-> l] : l \in SeqsUpTo(DeviceKeys, MaxAllow) }

NoStats == <<>>

InitLocals ==
  /\ pc = "read"
  /\ df = NoTable
  /\ dir_exists = FALSE
  /\ fs = <<>>
  /\ unique_devices = <<>>
  /\ i = 0
  /\ stats = NoStats
  /\ result = EmptyDict
  /\ exc = "none"
  /\ raised = FALSE

Init ==
  /\ op \in {"filter", "summary"}
  /\ input_file \in (IF op = "filter" THEN FilterInputs(DeviceValues, MaxRows) ELSE SummaryInputs)
  /\ file_format \in (IF op = "filter" THEN Formats ELSE {"csv"})
  /\ specific_devices \in (IF op = "filter" THEN AllowLists ELSE {None})
  /\ InitLocals

----------------------------------------------------------------------------
(* The except clauses *)

\* A handler narrowed to `except ValueError`.
CatchesValueErrorOnly(e) == e = "ValueError"

\* `except Exception` catches every exception the body raises.
Catches(e) == TRUE

\* A raise inside the try block of filter_data_by_device: the handler prints
\* the message and returns {}; anything the handler does not catch escapes.
FilterRaise(e) ==
  /\ exc' = e
  /\ raised' = ~Catches(e)
  /\ result' = EmptyDict
  /\ pc' = "done"

\* The same for get_device_summary, which returns pd.DataFrame().
SummaryRaise(e) ==
  /\ exc' = e
  /\ raised' = ~Catches(e)
  /\ result' = EmptyFrame
  /\ pc' = "done"

----------------------------------------------------------------------------
(* filter_data_by_device *)

\* lines 30-37: pick the reader by suffix and read the whole file
FilterRead ==
  /\ op = "filter" /\ pc = "read"
  /\ IF input_file.kind = "bad_suffix"
       THEN FilterRaise("ValueError") /\ UNCHANGED df
     ELSE IF input_file.kind = "unreadable"
       THEN FilterRaise("ParserError") /\ UNCHANGED df
     ELSE /\ df' = input_file.table
          /\ pc' = "check_column"
          /\ UNCHANGED <<exc, raised, result>>
  /\ UNCHANGED <<op, input_file, file_format, specific_devices,
                 dir_exists, fs, unique_devices, i, stats>>

\* The column check placed after os.makedirs.
CheckColumnAfterMakeDirs ==
  /\ op = "filter" /\ pc = "check_column"
  /\ IF "device" \notin df.columns
       THEN FilterRaise("ValueError") /\ dir_exists' = TRUE
       ELSE pc' = "makedirs" /\ UNCHANGED <<exc, raised, result, dir_exists>>
  /\ UNCHANGED <<op, input_file, file_format, specific_devices,
                 df, fs, unique_devices, i, stats>>

\* lines 40-41: device_column must be a column
CheckColumn ==
  /\ op = "filter" /\ pc = "check_column"
  /\ IF "device" \notin df.columns
       THEN FilterRaise("ValueError")
       ELSE pc' = "makedirs" /\ UNCHANGED <<exc, raised, result>>
  /\ UNCHANGED <<op, input_file, file_format, specific_devices,
                 df, dir_exists, fs, unique_devices, i, stats>>

\* line 44: os.makedirs(output_dir, exist_ok=True); it may fail (OSError)
MakeDirs ==
  /\ op = "filter" /\ pc = "makedirs"
  /\ \/ /\ dir_exists' = TRUE
        /\ pc' = "unique"
        /\ UNCHANGED <<exc, raised, result>>
     \/ /\ FilterRaise("OSError")
        /\ UNCHANGED dir_exists
  /\ UNCHANGED <<op, input_file, file_format, specific_devices,
                 df, fs, unique_devices, i, stats>>

\* line 47
UniqueDevices ==
  /\ op = "filter" /\ pc = "unique"
  /\ unique_devices' = Unique(df.rows)
  /\ pc' = "filter"
  /\ UNCHANGED <<op, input_file, file_format, specific_devices,
                 df, dir_exists, fs, i, stats, result, exc, raised>>

\* Truth value of the specific_devices argument: None and [] are both false.
Truthy(sd) == sd.given /\ Len(sd.list) > 0

\* lines 50-54
FilterSpecific ==
  /\ op = "filter" /\ pc = "filter"
  /\ IF Truthy(specific_devices)
       THEN LET kept == FilterIn(unique_devices, specific_devices.list, 1) IN
            /\ unique_devices' = kept
            /\ IF kept = <<>>
                 THEN result' = EmptyDict /\ pc' = "done"
                 ELSE pc' = "stats" /\ UNCHANGED result
       ELSE /\ pc' = "stats"
            /\ UNCHANGED <<unique_devices, result>>
  /\ UNCHANGED <<op, input_file, file_format, specific_devices,
                 df, dir_exists, fs, i, stats, exc, raised>>

\* lines 59-64
InitStats ==
  /\ op = "filter" /\ pc = "stats"
  /\ stats' = [total_devices |-> Len(unique_devices),
               total_records |-> Len(df.rows),
               devices_processed |-> <<>>,
               output_files |-> <<>>]
  /\ pc' = "loop"
  /\ UNCHANGED <<op, input_file, file_format, specific_devices,
                 df, dir_exists, fs, unique_devices, i, result, exc, raised>>

\* dict[key] = value
DictSet(d, k, v) == [x \in (DOMAIN d) \cup {k} |-> IF x = k THEN v ELSE d[x]]

\* What a write that fails can leave at the path: nothing new (the open
\* failed) or a file cut short.
Prefixes(data) ==
  { SubSeq(data, 1, n) : n \in 0..(IF Len(data) = 0 THEN 0 ELSE Len(data) - 1) }

\* lines 67-96: one pass of the loop body for the next device key
ProcessDevice ==
  /\ op = "filter" /\ pc = "loop" /\ i < Len(unique_devices)
  /\ LET device_id == unique_devices[i + 1]
         device_data == DeviceData(df.rows, device_id)
         fmt == Lower(file_format)
     IN
     IF fmt \notin {"csv", "json", "excel"}
       THEN FilterRaise("ValueError") /\ UNCHANGED <<fs, stats, i>>
       ELSE LET output_file == OutputFile(device_id, fmt) IN
            \/ /\ fs' = DictSet(fs, output_file, device_data)
               /\ stats' = [stats EXCEPT
                    !.devices_processed =
                        DictSet(@, device_id,
                                [records_count |-> Len(device_data),
                                 output_file |-> output_file]),
                    !.output_files = Append(@, output_file)]
               /\ i' = i + 1
               /\ UNCHANGED <<pc, result, exc, raised>>
            \/ /\ FilterRaise("OSError")
               /\ \/ UNCHANGED fs
                  \/ \E part \in Prefixes(device_data) :
                       fs' = DictSet(fs, output_file, part)
               /\ UNCHANGED <<stats, i>>
  /\ UNCHANGED <<op, input_file, file_format, specific_devices,
                 df, dir_exists, unique_devices>>

\* lines 98-99
ReturnStats ==
  /\ op = "filter" /\ pc = "loop" /\ i = Len(unique_devices)
  /\ result' = stats
  /\ pc' = "done"
  /\ UNCHANGED <<op, input_file, file_format, specific_devices,
                 df, dir_exists, fs, unique_devices, i, stats, exc, raised>>

FilterNext ==
  \/ FilterRead
  \/ CheckColumn
  \/ MakeDirs
  \/ UniqueDevices
  \/ FilterSpecific
  \/ InitStats
  \/ ProcessDevice
  \/ ReturnStats

----------------------------------------------------------------------------
(* get_device_summary *)

\* lines 120-127
SummaryRead ==
  /\ op = "summary" /\ pc = "read"
  /\ IF input_file.kind = "bad_suffix"
       THEN SummaryRaise("ValueError") /\ UNCHANGED df
     ELSE IF input_file.kind = "unreadable"
       THEN SummaryRaise("ParserError") /\ UNCHANGED df
     ELSE /\ df' = input_file.table
          /\ pc' = "agg"
          /\ UNCHANGED <<exc, raised, result>>
  /\ UNCHANGED <<op, input_file, file_format, specific_devices,
                 dir_exists, fs, unique_devices, i, stats>>

\* Code point of a character, for the order groupby sorts the keys in.
CharCode(c) ==
  CASE c = "/" -> 47
    [] c = "\\" -> 92
    [] c = "_" -> 95
    [] c = "a" -> 97
    [] c = "b" -> 98

RECURSIVE StrLess(_, _)
StrLess(a, b) ==
  IF b = <<>> THEN FALSE
  ELSE IF a = <<>> THEN TRUE
  ELSE IF Head(a) = Head(b) THEN StrLess(Tail(a), Tail(b))
  ELSE CharCode(Head(a)) < CharCode(Head(b))

RECURSIVE SortKeys(_)
SortKeys(S) ==
  IF S = {} THEN <<>>
  ELSE LET m == CHOOSE x \in S : \A y \in S \ {x} : StrLess(x, y)
       IN <<m>> \o SortKeys(S \ {m})

\* groupby(device_column): the groups' keys, sorted, missing values dropped
GroupKeys(t) == SortKeys({ t[n].device : n \in 1..Len(t) } \ {NULL})

RECURSIVE SumOf(_, _)
SumOf(rows, f) ==
  IF rows = <<>> THEN 0 ELSE rows[1][f] + SumOf(Tail(rows), f)

Min(S) == CHOOSE x \in S : \A y \in S : x <= y

Max(S) == CHOOSE x \in S : \A y \in S : x >= y

\* The dictionary passed to agg: the columns it names
AggColumns == {"id", "created_at", "online", "active_time"}

\* 'online': lambda x: x.sum() if 'online' in df.columns else 'N/A'
OnlineAgg(t, g) ==
  IF "online" \in t.columns
    THEN Cardinality({ n \in 1..Len(g) : g[n].online })
    ELSE "N/A"

\* 'active_time': 'sum' if 'active_time' in df.columns else 'mean'
ActiveTimeAgg(t, g) ==
  IF "active_time" \in t.columns
    THEN SumOf(g, "active_time")
    ELSE "mean"

\* One row of the summary, for the group of key k (lines 130-139)
SummaryRow(t, k) ==
  LET g == DeviceData(t.rows, k) IN
  [device |-> k,
   Total_Records |-> Len(g),
   First_Record |-> Min({ g[n].created_at : n \in 1..Len(g) }),
   Last_Record |-> Max({ g[n].created_at : n \in 1..Len(g) }),
   Online_Count |-> OnlineAgg(t, g),
   Total_Active_Time |-> ActiveTimeAgg(t, g)]

SummaryHeader ==
  <<"device", "Total_Records", "First_Record", "Last_Record",
    "Online_Count", "Total_Active_Time">>

\* agg raises KeyError when its dictionary names a column the table lacks
AggAccepts(t) == AggColumns \subseteq t.columns

\* lines 130-141
SummaryAggregate ==
  /\ op = "summary" /\ pc = "agg"
  /\ IF "device" \notin df.columns \/ ~AggAccepts(df)
       THEN SummaryRaise("KeyError")
       ELSE LET keys == GroupKeys(df.rows) IN
            /\ result' = [columns |-> SummaryHeader,
                          rows |-> [n \in 1..Len(keys) |-> SummaryRow(df, keys[n])]]
            /\ pc' = "done"
            /\ UNCHANGED <<exc, raised>>
  /\ UNCHANGED <<op, input_file, file_format, specific_devices,
                 df, dir_exists, fs, unique_devices, i, stats>>

SummaryNext ==
  \/ SummaryRead
  \/ SummaryAggregate

Next == FilterNext \/ SummaryNext

Spec == Init /\ [][Next]_vars

\* The same call, with the device keys drawn from every string of up to
\* MaxKeyLen characters over Chars (and the missing value), one row a table.
InitKeys ==
  /\ op \in {"filter", "summary"}
  /\ input_file \in (IF op = "filter"
                       THEN FilterInputs(KeysUpTo(MaxKeyLen) \cup {NULL}, 1)
                       ELSE SummaryInputs)
  /\ file_format \in (IF op = "filter" THEN Formats ELSE {"csv"})
  /\ specific_devices \in (IF op = "filter" THEN AllowLists ELSE {None})
  /\ InitLocals

SpecKeys == InitKeys /\ [][Next]_vars

----------------------------------------------------------------------------
(* Properties *)

FilterReturned == op = "filter" /\ pc = "done"

SummaryReturned == op = "summary" /\ pc = "done"

InputRows == input_file.table.rows

\* The input rows the allow-list lets through: all of them without a list
\* (an empty list counts as no list here, as the call treats it).
AllowedRows ==
  IF Truthy(specific_devices)
    THEN { r \in Range(InputRows) : r.device \in Range(specific_devices.list) }
    ELSE Range(InputRows)

WrittenFiles == Range(result.output_files)

RECURSIVE SumCounts(_, _)
SumCounts(dp, keys) ==
  IF keys = {} THEN 0
  ELSE LET k == CHOOSE x \in keys : TRUE
       IN dp[k].records_count + SumCounts(dp, keys \ {k})

\* C1: after a call that returns a non-empty stats record, the rows held by
\* the output files are exactly the input rows the allow-list lets through
\* (all rows without a list), and no row is in two files.
C1_PartitionOnDisk ==
  (FilterReturned /\ result # EmptyDict) =>
     /\ UNION { Range(fs[f]) : f \in WrittenFiles } = AllowedRows
     /\ \A f, g \in WrittenFiles :
          f # g => Range(fs[f]) \cap Range(fs[g]) = {}

\* C2: in a non-empty stats record the records_count entries add up to the
\* number of input rows the allow-list lets through.
C2_CountConserved ==
  (FilterReturned /\ result # EmptyDict) =>
     SumCounts(result.devices_processed, DOMAIN result.devices_processed)
       = Cardinality(AllowedRows)

\* C3: a successful call writes one file per processed key: distinct keys
\* have distinct paths and the number of files on disk equals total_devices.
C3_OneFilePerKey ==
  (FilterReturned /\ result # EmptyDict) =>
     /\ \A d, e \in DOMAIN result.devices_processed :
          d # e => result.devices_processed[d].output_file
                     # result.devices_processed[e].output_file
     /\ Cardinality(DOMAIN fs) = result.total_devices

\* C4: no exception escapes either function, and a call that failed
\* returned the empty result of its function.
C4_NoExceptionEscapes ==
  /\ ~raised
  /\ (pc = "done" /\ exc # "none") =>
       result = (IF op = "filter" THEN EmptyDict ELSE EmptyFrame)

C4_Witness ==
  /\ FilterReturned /\ exc = "OSError" /\ i >= 1 /\ result = EmptyDict

\* C5: when the device column is missing, filter_data_by_device returns {},
\* writes no file, does not create the output directory and raises nothing.
C5_MissingColumn ==
  (FilterReturned /\ input_file.kind = "ok"
     /\ "device" \notin input_file.table.columns) =>
     /\ result = EmptyDict
     /\ fs = <<>>
     /\ ~dir_exists
     /\ ~raised

C5_Witness ==
  /\ FilterReturned /\ input_file.kind = "ok"
  /\ "device" \notin input_file.table.columns
  /\ Len(InputRows) > 0
  /\ exc = "ValueError"

\* C6: for every loadable table, of any number of rows, a file_format that
\* is none of csv, json, excel in lower case makes the call return {} and
\* write no file.
C6_BadFormatFails ==
  (FilterReturned /\ input_file.kind = "ok"
     /\ Lower(file_format) \notin {"csv", "json", "excel"}) =>
     /\ result = EmptyDict
     /\ fs = <<>>

\* C7: whenever a list is given, the empty list included, a call that meets
\* no failure processes exactly the discovered keys that are in the list, in
\* first-seen order; when there are none it returns {} and writes no file.
C7_AllowListIntersection ==
  (FilterReturned /\ input_file.kind = "ok" /\ exc = "none"
     /\ specific_devices.given) =>
     LET inter == FilterIn(Unique(InputRows), specific_devices.list, 1) IN
     IF inter = <<>>
       THEN result = EmptyDict /\ fs = <<>>
       ELSE /\ result # EmptyDict
            /\ result.total_devices = Len(inter)
            /\ unique_devices = inter
            /\ DOMAIN result.devices_processed = Range(inter)

\* C8: the file name built for a device key is "device_", then the key's
\* text with every '/' and '\' turned into '_' and every other character
\* kept, then '.' and the extension; it holds neither '/' nor '\'.
C8_SafeFileName ==
  (op = "filter" /\ stats # NoStats) =>
    \A n \in 1..Len(stats.output_files) :
      LET name == stats.output_files[n]
          key == Str(unique_devices[n])
      IN /\ \A j \in 1..Len(name) : name[j] \notin {"/", "\\"}
         /\ Len(name) > 7 + Len(key)
         /\ SubSeq(name, 1, 7) = <<"d", "e", "v", "i", "c", "e", "_">>
         /\ \A j \in 1..Len(key) :
              name[7 + j] = (IF key[j] \in {"/", "\\"} THEN "_" ELSE key[j])
         /\ name[7 + Len(key) + 1] = "."
         /\ \A j \in (7 + Len(key) + 2)..Len(name) : name[j] \notin {".", "_"}

C8_Witness ==
  /\ op = "filter" /\ stats # NoStats /\ Len(stats.output_files) = 1
  /\ "/" \in Range(unique_devices[1])
  /\ "\\" \in Range(unique_devices[1])
  /\ "a" \in Range(unique_devices[1])
  /\ stats.output_files[1] \in DOMAIN fs

\* C9: on a table with the device column, id and created_at but no online
\* column, get_device_summary returns a non-empty summary with one row per
\* device, Online_Count "N/A" in each, and the six columns in order.
C9_OnlineAbsent ==
  (SummaryReturned /\ input_file.kind = "ok"
     /\ {"device", "id", "created_at"} \subseteq input_file.table.columns
     /\ "online" \notin input_file.table.columns
     /\ GroupKeys(InputRows) # <<>>) =>
     /\ result # EmptyFrame
     /\ result.columns = SummaryHeader
     /\ Len(result.rows) = Len(GroupKeys(InputRows))
     /\ \A n \in 1..Len(result.rows) : result.rows[n].Online_Count = "N/A"

\* C10: when handling the k-th key fails, the call returns {} and the files
\* of keys 1..k-1 are still on disk, each with all the rows of its key.
C10_NoRollback ==
  (FilterReturned /\ stats # NoStats /\ exc # "none") =>
     /\ result = EmptyDict
     /\ \A n \in 1..i :
          LET f == stats.devices_processed[unique_devices[n]].output_file IN
          /\ f \in DOMAIN fs
          /\ fs[f] = DeviceData(InputRows, unique_devices[n])

====
